---- MODULE Spec2Model ----
(***************************************************************************)
(* Model of slack-summarize: the two pipeline services (fetchSlackThread,  *)
(* generateSummary), the two credential validators, and the submit handler *)
(* of the App component together with the settings it reads.               *)
(*                                                                         *)
(* JavaScript values are modelled as follows: strings are TLA+ strings,    *)
(* objects are records whose DOMAIN is the set of own properties, arrays   *)
(* are sequences, and the value `undefined` is the marker Undefined (an    *)
(* unset string field reads as Undefined; a falsy test treats Undefined    *)
(* and "" alike).  Temperatures are counted in tenths (7 stands for 0.7).  *)
(***************************************************************************)
EXTENDS Integers, Sequences, FiniteSets, TLC

VARIABLES
    fn,        \* the service function whose call is in flight or has settled
    pc,        \* where that call stands: idle, await, returned, thrown
    args,      \* the arguments of that call
    exch,      \* the HTTP exchange that settled the call (NoExchange before)
    ret,       \* the settled value of the call's promise
    httpLog,   \* requests issued through fetch(), in order
    chatLog,   \* requests issued through openai.createChatCompletion, in order
    app,       \* the mounted App component: "web", "legacy", or "none"
    form,      \* the values of the form fields (Sidebar form and App form)
    settings,  \* App state `settings`: Null or the last SettingsData notified
    messages,  \* App state `messages`
    summary,   \* App state `summary`
    isLoading, \* App state `isLoading`
    captured,  \* the values the running handler closed over at submit time
    trace,     \* events of the latest submission, in order
    validation,\* Sidebar state `validation`: the status shown for each token
    inflight,  \* validateToken calls awaiting their validator, oldest first
    verdict    \* per token field, the verdict on its latest value ("none" before)

svcVars == <<fn, pc, args, exch, ret, httpLog, chatLog>>
appVars == <<app, form, settings, messages, summary, isLoading, captured, trace>>
sideVars == <<validation, inflight, verdict>>
vars == <<fn, pc, args, exch, ret, httpLog, chatLog,
          app, form, settings, messages, summary, isLoading, captured, trace,
          validation, inflight, verdict>>

----------------------------------------------------------------------------
(* Bounds of the model *)

MaxMsgs == 2       \* longest message list a provider response carries
MaxChoices == 2    \* longest choices list a completion response carries
MaxInFlight == 2   \* most validateToken calls awaiting their validator at once

----------------------------------------------------------------------------
(* JavaScript values *)

Undefined == "<undefined>"
Null == [null |-> TRUE]

\* obj.f : a missing property reads as undefined
Get(obj, f) == IF f \in DOMAIN obj THEN obj[f] ELSE Undefined

\* !!v for the string-or-undefined values of the model
Truthy(v) == v # Undefined /\ v # ""

\* v || d
OrElse(v, d) == IF Truthy(v) THEN v ELSE d

----------------------------------------------------------------------------
(* Input domains *)

ThreadUrls == {"https://x.slack.com/archives/C1/p123"}
SlackTokens == {"", "tok"}
OpenAiTokens == {"", "sk-key"}
DefaultPrompt == "Please summarise this Slack thread conversation"
Prompts == {"", "Summarize", DefaultPrompt}
Languages == {"en", "zh-Hant", "zh-TW", "fr", Undefined}
Temperatures == {7, 20}

\* messages as the provider sends them: { user, text, ts }
ApiMessages ==
    { [user |-> "alice", text |-> "hi", ts |-> "1"],
      [user |-> "bob",   text |-> "yo", ts |-> "2"],
      [user |-> "bob",   text |-> "hi", ts |-> "3"] }

SeqsUpTo(S, n) == UNION { [1..k -> S] : k \in 0..n }

ApiMessageLists == SeqsUpTo(ApiMessages, MaxMsgs)

Statuses == {200, 401, 404, 429, 500}

\* parsed JSON bodies of the messaging provider: ok and messages may each
\* be present or absent
SlackJson ==
    { [ok |-> b] : b \in BOOLEAN }
    \cup { [error |-> "not_found"] }
    \cup { [messages |-> l] : l \in ApiMessageLists }
    \cup { [ok |-> b, messages |-> l] : b \in BOOLEAN, l \in ApiMessageLists }

Bodies == { [json |-> FALSE] } \cup { [json |-> TRUE, data |-> d] : d \in SlackJson }

NetworkFailure == [net |-> "fail"]
NoExchange == [net |-> "none"]

\* what one fetch() can end in: the network fails, or a response arrives
\* with a status and a body
HttpExchanges ==
    { NetworkFailure }
    \cup { [net |-> "ok", status |-> s, body |-> b] : s \in Statuses, b \in Bodies }

Contents == {"", "Summary A", "Summary B"}

Choices ==
    { [index |-> 0],
      [index |-> 0, message |-> [role |-> "assistant"]] }
    \cup { [index |-> 0, message |-> [role |-> "assistant", content |-> c]] : c \in Contents }

\* response.data of a completion: with or without a choices list
ChatData ==
    { [id |-> "chatcmpl"] }
    \cup { [id |-> "chatcmpl", choices |-> l] : l \in SeqsUpTo(Choices, MaxChoices) }

\* what one createChatCompletion can end in: the client rejects (network
\* failure or non-2xx status), or resolves with response.data
ChatExchanges ==
    { NetworkFailure } \cup { [net |-> "ok", data |-> d] : d \in ChatData }

----------------------------------------------------------------------------
(* Settled values of a service call *)

Pending == [kind |-> "pending", messages |-> <<>>, text |-> "", bool |-> FALSE, error |-> ""]
ReturnMessages(ms) == [kind |-> "return", messages |-> ms, text |-> "", bool |-> FALSE, error |-> ""]
ReturnText(s) == [kind |-> "return", messages |-> <<>>, text |-> s, bool |-> FALSE, error |-> ""]
ReturnBool(b) == [kind |-> "return", messages |-> <<>>, text |-> "", bool |-> b, error |-> ""]
Throw(e) == [kind |-> "throw", messages |-> <<>>, text |-> "", bool |-> FALSE, error |-> e]

NoArgs == [token |-> "", url |-> "", messages |-> <<>>, prompt |-> "", language |-> ""]

----------------------------------------------------------------------------
(* Template literals *)

\* `${v}` : undefined is rendered as the text "undefined"
Str(v) == IF v = Undefined THEN "undefined" ELSE v

----------------------------------------------------------------------------
(* fetchSlackThread *)

\* the one request of fetchSlackThread; the thread URL is not part of it
SlackRepliesRequest(slackToken) ==
    [url |-> "https://slack.com/api/conversations.replies",
     method |-> "GET",
     headers |-> [Authorization |-> "Bearer " \o Str(slackToken)]]

FetchSlackThreadRequests_Retry(slackToken) ==
    << SlackRepliesRequest(slackToken), SlackRepliesRequest(slackToken) >>

\* the requests one call of fetchSlackThread issues: a single fetch(), with
\* no loop and no retry around it
FetchSlackThreadRequests(slackToken) == << SlackRepliesRequest(slackToken) >>

MapMessage_TextAsTimestamp(msg) ==
    [user |-> Get(msg, "user"), text |-> Get(msg, "text"), timestamp |-> Get(msg, "text")]

\* the callback of data.messages.map
MapMessage(msg) ==
    [user |-> Get(msg, "user"), text |-> Get(msg, "text"), timestamp |-> Get(msg, "ts")]

MapMessages(list) == [i \in 1..Len(list) |-> MapMessage(list[i])]

\* the value fetchSlackThread settles with, given how its request ended:
\* fetch rejects on a network failure, response.json() rejects on a body
\* that is not JSON, and .map on a missing messages property throws; the
\* status of the response is never read
FetchSlackThreadResult(x) ==
    IF x.net = "fail" THEN Throw("NetworkError")
    ELSE IF ~x.body.json THEN Throw("SyntaxError")
    ELSE IF "messages" \notin DOMAIN x.body.data THEN Throw("TypeError")
    ELSE ReturnMessages(MapMessages(x.body.data.messages))

----------------------------------------------------------------------------
(* generateSummary *)

EnInstruction == "Please respond in English"
\* stands for the literal U+8ACB U+7528 U+7E41 U+9AD4 U+4E2D U+6587 U+56DE U+7B54
ZhInstruction == "<zh-Hant literal: qing yong fanti zhongwen huida>"

RECURSIVE JoinFrom(_, _, _, _)
JoinFrom(list, sep, i, acc) ==
    IF i > Len(list) THEN acc
    ELSE JoinFrom(list, sep, i + 1, acc \o sep \o list[i])

\* Array.prototype.join
Join(list, sep) == IF Len(list) = 0 THEN "" ELSE JoinFrom(list, sep, 2, list[1])

RenderMessage_TextOnly(msg) == Str(Get(msg, "text"))

\* `${msg.user}: ${msg.text}`
RenderMessage(msg) == Str(Get(msg, "user")) \o ": " \o Str(Get(msg, "text"))

ConversationText(msgs) == Join([i \in 1..Len(msgs) |-> RenderMessage(msgs[i])], "\n")

SystemPrompt_ZhTW(language) ==
    IF language = "zh-TW" THEN ZhInstruction ELSE EnInstruction

SystemPrompt(language) ==
    IF language = "zh-Hant" THEN ZhInstruction ELSE EnInstruction

\* the argument of openai.createChatCompletion; generateSummary declares
\* four parameters, so a fifth argument of a caller never reaches it
ChatCompletionRequest(msgs, prompt, language) ==
    [model |-> "gpt-3.5-turbo",
     messages |-> << [role |-> "system", content |-> SystemPrompt(language)],
                     [role |-> "user",
                      content |-> Str(prompt) \o "\n\nConversation:\n" \o ConversationText(msgs)] >>]

\* one entry of chatLog: the client's key and the request it sent
ChatCall(msgs, openAiToken, prompt, language) ==
    [apiKey |-> openAiToken, request |-> ChatCompletionRequest(msgs, prompt, language)]

FirstContent_NoOptionalChaining(data) ==
    IF "choices" \notin DOMAIN data THEN Throw("TypeError")
    ELSE IF Len(data.choices) = 0 THEN Throw("TypeError")
    ELSE IF "message" \notin DOMAIN data.choices[1] THEN Throw("TypeError")
    ELSE ReturnText(OrElse(Get(data.choices[1].message, "content"), ""))

\* response.data.choices[0]?.message?.content || ''
FirstContent(data) ==
    IF "choices" \notin DOMAIN data THEN Throw("TypeError")
    ELSE IF Len(data.choices) = 0 THEN ReturnText("")
    ELSE IF "message" \notin DOMAIN data.choices[1] THEN ReturnText("")
    ELSE ReturnText(OrElse(Get(data.choices[1].message, "content"), ""))

\* the value generateSummary settles with, given how its request ended
GenerateSummaryResult(x) ==
    IF x.net = "fail" THEN Throw("ApiError") ELSE FirstContent(x.data)

----------------------------------------------------------------------------
(* Credential validators *)

AuthTestRequest(token) ==
    [url |-> "https://slack.com/api/auth.test",
     method |-> "POST",
     headers |-> [Authorization |-> "Bearer " \o Str(token),
                  ContentType |-> "application/json"]]

ModelsRequest(token) ==
    [url |-> "https://api.openai.com/v1/models",
     method |-> "GET",
     headers |-> [Authorization |-> "Bearer " \o Str(token)]]

\* try { ... data.ok === true } catch { false }: the status is never read
ValidateSlackTokenResult(x) ==
    IF x.net = "fail" THEN ReturnBool(FALSE)
    ELSE IF ~x.body.json THEN ReturnBool(FALSE)
    ELSE ReturnBool("ok" \in DOMAIN x.body.data /\ x.body.data.ok = TRUE)

\* try { ... response.status === 200 } catch { false }: the body is never read
ValidateOpenAITokenResult(x) ==
    IF x.net = "fail" THEN ReturnBool(FALSE)
    ELSE ReturnBool(x.status = 200)

----------------------------------------------------------------------------
(* Direct calls of the four service functions: one call at a time, each
   settled by one exchange drawn from the bounded sets above. *)

\* useState<TokenValidation>({ slackToken: 'idle', openAiToken: 'idle' })
IdleValidation ==
    /\ validation = [slackToken |-> "idle", openAiToken |-> "idle"]
    /\ inflight = <<>>
    /\ verdict = [slackToken |-> "none", openAiToken |-> "none"]

IdleApp ==
    /\ app = "none"
    /\ form = [slackToken |-> Undefined]
    /\ settings = Null
    /\ messages = <<>>
    /\ summary = ""
    /\ isLoading = FALSE
    /\ captured = Null
    /\ trace = <<>>

InitService ==
    /\ fn = "none"
    /\ pc = "idle"
    /\ args = NoArgs
    /\ exch = NoExchange
    /\ ret = Pending
    /\ httpLog = <<>>
    /\ chatLog = <<>>
    /\ IdleApp
    /\ IdleValidation

CallFetchSlackThread ==
    /\ pc = "idle"
    /\ \E threadUrl \in ThreadUrls, slackToken \in SlackTokens :
          /\ args' = [NoArgs EXCEPT !.url = threadUrl, !.token = slackToken]
          /\ httpLog' = httpLog \o FetchSlackThreadRequests(slackToken)
    /\ fn' = "fetchSlackThread"
    /\ pc' = "await"
    /\ UNCHANGED <<exch, ret, chatLog>>
    /\ UNCHANGED appVars
    /\ UNCHANGED sideVars

Settled(r) == IF r.kind = "return" THEN "returned" ELSE "thrown"

SettleFetchSlackThread ==
    /\ pc = "await"
    /\ fn = "fetchSlackThread"
    /\ \E x \in HttpExchanges :
          /\ exch' = x
          /\ ret' = FetchSlackThreadResult(x)
          /\ pc' = Settled(FetchSlackThreadResult(x))
    /\ UNCHANGED <<fn, args, httpLog, chatLog>>
    /\ UNCHANGED appVars
    /\ UNCHANGED sideVars

CallGenerateSummary ==
    /\ pc = "idle"
    /\ \E l \in ApiMessageLists, openAiToken \in OpenAiTokens,
          prompt \in Prompts, language \in Languages :
          /\ args' = [NoArgs EXCEPT !.messages = MapMessages(l), !.token = openAiToken,
                                    !.prompt = prompt, !.language = language]
          /\ chatLog' = Append(chatLog, ChatCall(MapMessages(l), openAiToken, prompt, language))
    /\ fn' = "generateSummary"
    /\ pc' = "await"
    /\ UNCHANGED <<exch, ret, httpLog>>
    /\ UNCHANGED appVars
    /\ UNCHANGED sideVars

SettleGenerateSummary ==
    /\ pc = "await"
    /\ fn = "generateSummary"
    /\ \E x \in ChatExchanges :
          /\ exch' = x
          /\ ret' = GenerateSummaryResult(x)
          /\ pc' = Settled(GenerateSummaryResult(x))
    /\ UNCHANGED <<fn, args, httpLog, chatLog>>
    /\ UNCHANGED appVars
    /\ UNCHANGED sideVars

CallValidateSlackToken ==
    /\ pc = "idle"
    /\ \E token \in SlackTokens :
          /\ args' = [NoArgs EXCEPT !.token = token]
          /\ httpLog' = Append(httpLog, AuthTestRequest(token))
    /\ fn' = "validateSlackToken"
    /\ pc' = "await"
    /\ UNCHANGED <<exch, ret, chatLog>>
    /\ UNCHANGED appVars
    /\ UNCHANGED sideVars

SettleValidateSlackToken ==
    /\ pc = "await"
    /\ fn = "validateSlackToken"
    /\ \E x \in HttpExchanges :
          /\ exch' = x
          /\ ret' = ValidateSlackTokenResult(x)
          /\ pc' = Settled(ValidateSlackTokenResult(x))
    /\ UNCHANGED <<fn, args, httpLog, chatLog>>
    /\ UNCHANGED appVars
    /\ UNCHANGED sideVars

CallValidateOpenAIToken ==
    /\ pc = "idle"
    /\ \E token \in OpenAiTokens :
          /\ args' = [NoArgs EXCEPT !.token = token]
          /\ httpLog' = Append(httpLog, ModelsRequest(token))
    /\ fn' = "validateOpenAIToken"
    /\ pc' = "await"
    /\ UNCHANGED <<exch, ret, chatLog>>
    /\ UNCHANGED appVars
    /\ UNCHANGED sideVars

SettleValidateOpenAIToken ==
    /\ pc = "await"
    /\ fn = "validateOpenAIToken"
    /\ \E x \in HttpExchanges :
          /\ exch' = x
          /\ ret' = ValidateOpenAITokenResult(x)
          /\ pc' = Settled(ValidateOpenAITokenResult(x))
    /\ UNCHANGED <<fn, args, httpLog, chatLog>>
    /\ UNCHANGED appVars
    /\ UNCHANGED sideVars

\* the settled call is over; the next call starts from empty logs
NextCall ==
    /\ pc \in {"returned", "thrown"}
    /\ fn' = "none"
    /\ pc' = "idle"
    /\ args' = NoArgs
    /\ exch' = NoExchange
    /\ ret' = Pending
    /\ httpLog' = <<>>
    /\ chatLog' = <<>>
    /\ UNCHANGED appVars
    /\ UNCHANGED sideVars

NextService ==
    \/ CallFetchSlackThread
    \/ SettleFetchSlackThread
    \/ CallGenerateSummary
    \/ SettleGenerateSummary
    \/ CallValidateSlackToken
    \/ SettleValidateSlackToken
    \/ CallValidateOpenAIToken
    \/ SettleValidateOpenAIToken
    \/ NextCall

SpecService == InitService /\ [][NextService]_vars

----------------------------------------------------------------------------
(* The App component and the settings it reads.

   app = "web" is the App that takes its settings from the Sidebar; app =
   "legacy" is the App that keeps every field in its own form.  An unset
   field and an emptied field are both falsy in every test the code makes
   of them (&& in the watch callback, min(1) and url() in the schemas), so
   both are the empty string here.  Values restored from localStorage on
   mount arrive through setValue, field by field, as edits do.  While the
   handler runs, httpLog and chatLog hold the requests of that run.  The
   Sidebar's validation indicator reads and writes no state of the
   pipeline; it is followed in SpecSidebar below and rests here. *)

FormUrls == ThreadUrls \cup {""}
FormPrompts == {"", DefaultPrompt}
DefaultTemperature == 7

\* the options of the language <Select> of each component
LanguageOptions(a) == IF a = "web" THEN {"en", "zh-TW"} ELSE {"en", "zh-Hant"}

\* the thread the provider serves to the App, and the responses it may give
Thread ==
    << [user |-> "alice", text |-> "hi", ts |-> "1"],
       [user |-> "bob",   text |-> "yo", ts |-> "2"],
       [user |-> "bob",   text |-> "hi", ts |-> "3"] >>

AppMessageLists == { SubSeq(Thread, 1, n) : n \in 0..MaxMsgs }

AppHttpExchanges ==
    { NetworkFailure }
    \cup { [net |-> "ok", status |-> s, body |-> b] :
             s \in {200, 404},
             b \in { [json |-> FALSE],
                     [json |-> TRUE, data |-> [ok |-> FALSE, error |-> "not_found"]] }
                   \cup { [json |-> TRUE, data |-> [ok |-> TRUE, messages |-> l]] :
                            l \in AppMessageLists } }

\* the completions the App may receive: a rejection, data without a choices
\* list, or a choices list of at most one choice
AppChatExchanges ==
    { NetworkFailure, [net |-> "ok", data |-> [id |-> "chatcmpl"]] }
    \cup { [net |-> "ok", data |-> [id |-> "chatcmpl", choices |-> l]] :
             l \in SeqsUpTo(Choices, 1) }

\* z.string().url()
IsUrl(u) == u \in ThreadUrls

\* the fields of settingsSchema, as the watch callback receives them
SettingsOf(f) ==
    [slackToken |-> f.slackToken, openAiToken |-> f.openAiToken,
     language |-> f.language, temperature |-> f.temperature, prompt |-> f.prompt]

\* both token fields of the settings are filled in
FormComplete(f) == Truthy(f.slackToken) /\ Truthy(f.openAiToken)

\* watch((data) => { if (data.slackToken && data.openAiToken)
\* onSettingsChange(data) }) with onSettingsChange = setSettings: the App's
\* settings after the callback ran on data
WatchCallback(data, prev) ==
    IF Truthy(data.slackToken) /\ Truthy(data.openAiToken) THEN data ELSE prev

\* the App's settings after a settings field changed
SettingsAfterChange(a, f, prev) ==
    IF a = "web" THEN WatchCallback(SettingsOf(f), prev) ELSE prev

\* zodResolver(formSchema) of each App
FormValid(a, f) ==
    IF a = "web"
    THEN IsUrl(f.threadUrl)
    ELSE /\ f.slackToken # ""
         /\ f.openAiToken # ""
         /\ IsUrl(f.threadUrl)
         /\ f.language \in {"en", "zh-Hant"}
         /\ f.temperature \in 0..20

\* the values handleFormSubmit reads for the rest of its run: the settings
\* of the render it was created in (web) or the validated form data
\* (legacy); formComplete records whether both token fields were filled in
\* when the submission was made
HandlerData(a, f, s) ==
    IF a = "web"
    THEN [slackToken |-> s.slackToken, openAiToken |-> s.openAiToken,
          language |-> s.language, temperature |-> s.temperature,
          prompt |-> s.prompt, threadUrl |-> f.threadUrl,
          formComplete |-> FormComplete(f)]
    ELSE [slackToken |-> f.slackToken, openAiToken |-> f.openAiToken,
          language |-> f.language, temperature |-> f.temperature,
          prompt |-> f.prompt, threadUrl |-> f.threadUrl,
          formComplete |-> FormComplete(f)]

\* fetchedMessages.map((msg) => ({ user: msg.user, text: msg.text,
\* timestamp: msg.ts })) on what fetchSlackThread returned
HandlerMessages(fetched) ==
    [i \in 1..Len(fetched) |->
        [user |-> Get(fetched[i], "user"),
         text |-> Get(fetched[i], "text"),
         timestamp |-> Get(fetched[i], "ts")]]

\* a call generateSummary(...argv): the function binds its four declared
\* parameters, whatever the number of arguments
GenerateSummaryCall(argv) == ChatCall(argv[1], argv[2], argv[3], argv[4])

\* generateSummary(fetchedMessages, openAiToken, prompt || '', language,
\* temperature) as the handler calls it
HandlerArguments(fetched, d) ==
    << fetched, d.openAiToken, OrElse(d.prompt, ""), d.language, d.temperature >>

HandlerAfterFetch_SwallowsError(r) == "generate"

\* where the handler goes when the awaited fetchSlackThread settles: on to
\* setMessages and generateSummary, or into the catch block
HandlerAfterFetch(r) == IF r.kind = "return" THEN "generate" ELSE "catch"

Init ==
    /\ fn = "none"
    /\ pc = "idle"
    /\ args = NoArgs
    /\ exch = NoExchange
    /\ ret = Pending
    /\ httpLog = <<>>
    /\ chatLog = <<>>
    /\ app \in {"web", "legacy"}
    /\ form = [slackToken |-> "", openAiToken |-> "", language |-> "en",
               temperature |-> DefaultTemperature, prompt |-> DefaultPrompt,
               threadUrl |-> ""]
    /\ settings = Null
    /\ messages = <<>>
    /\ summary = ""
    /\ isLoading = FALSE
    /\ captured = Null
    /\ trace = <<>>
    /\ IdleValidation

\* a settings field changes; in the web App the Sidebar's watch callback runs
ChangeField(field, value) ==
    /\ app \in {"web", "legacy"}
    /\ value # form[field]
    /\ form' = [form EXCEPT ![field] = value]
    /\ settings' = SettingsAfterChange(app, form', settings)
    /\ UNCHANGED <<app, messages, summary, isLoading, captured, trace>>
    /\ UNCHANGED svcVars
    /\ UNCHANGED sideVars

EditSlackToken == \E v \in SlackTokens : ChangeField("slackToken", v)

EditOpenAiToken == \E v \in OpenAiTokens : ChangeField("openAiToken", v)

EditLanguage == \E v \in LanguageOptions(app) : ChangeField("language", v)

EditTemperature == \E v \in Temperatures : ChangeField("temperature", v)

EditPrompt == \E v \in FormPrompts : ChangeField("prompt", v)

\* the thread URL belongs to the App's own form: no watch callback runs
EditThreadUrl ==
    /\ app \in {"web", "legacy"}
    /\ \E v \in FormUrls :
          /\ v # form.threadUrl
          /\ form' = [form EXCEPT !.threadUrl = v]
    /\ UNCHANGED <<app, settings, messages, summary, isLoading, captured, trace>>
    /\ UNCHANGED svcVars
    /\ UNCHANGED sideVars

\* handleFormSubmit of the web App entered while settings is null: it
\* returns at once (the button is rendered disabled in that state, so only
\* the handler's own guard is modelled here)
SubmitWithoutSettings ==
    /\ app = "web"
    /\ ~isLoading
    /\ FormValid(app, form)
    /\ settings = Null
    /\ trace' = << "submit:no-settings" >>
    /\ UNCHANGED <<app, form, settings, messages, summary, isLoading, captured>>
    /\ UNCHANGED svcVars
    /\ UNCHANGED sideVars

\* a click on the button (enabled while not loading) with a valid form:
\* handleFormSubmit runs up to its first await, inside fetchSlackThread
Submit ==
    /\ app \in {"web", "legacy"}
    /\ ~isLoading
    /\ pc = "idle"
    /\ FormValid(app, form)
    /\ app = "web" => settings # Null
    /\ LET d == HandlerData(app, form, settings) IN
          /\ captured' = d
          /\ args' = [NoArgs EXCEPT !.url = d.threadUrl, !.token = d.slackToken]
          /\ httpLog' = FetchSlackThreadRequests(d.slackToken)
    /\ isLoading' = TRUE
    /\ chatLog' = <<>>
    /\ fn' = "fetchSlackThread"
    /\ pc' = "await"
    /\ trace' = << "fetch:call" >>
    /\ UNCHANGED <<app, form, settings, messages, summary, exch, ret>>
    /\ UNCHANGED sideVars

IsLoadingAfterHandler_NoFinally(event) == event # "generate:return"

\* isLoading once the handler is over: finally { setIsLoading(false) } runs
\* whether the try block completed or the catch block ran
IsLoadingAfterHandler(event) == FALSE

\* the handler's catch and finally blocks
HandlerEnds(event) ==
    /\ isLoading' = IsLoadingAfterHandler(event)
    /\ captured' = Null
    /\ fn' = "none"
    /\ pc' = "idle"
    /\ args' = NoArgs
    /\ httpLog' = <<>>
    /\ chatLog' = <<>>
    /\ trace' = Append(trace, event)

\* fetchSlackThread settles and the handler runs on to its next await
FetchSettles ==
    /\ app \in {"web", "legacy"}
    /\ pc = "await"
    /\ fn = "fetchSlackThread"
    /\ \E x \in AppHttpExchanges :
          LET r == FetchSlackThreadResult(x) IN
          IF HandlerAfterFetch(r) = "generate"
          THEN /\ messages' = HandlerMessages(r.messages)
               /\ chatLog' = Append(chatLog,
                      GenerateSummaryCall(HandlerArguments(r.messages, captured)))
               /\ args' = [NoArgs EXCEPT !.messages = r.messages,
                                         !.token = captured.openAiToken,
                                         !.prompt = OrElse(captured.prompt, ""),
                                         !.language = captured.language]
               /\ fn' = "generateSummary"
               /\ trace' = trace \o << "fetch:" \o r.kind, "generate:call" >>
               /\ UNCHANGED <<pc, httpLog, isLoading, captured>>
          ELSE /\ HandlerEnds("fetch:throw")
               /\ UNCHANGED messages
    /\ UNCHANGED <<app, form, settings, summary, exch, ret>>
    /\ UNCHANGED sideVars

\* generateSummary settles and the handler runs to its end
GenerateSettles ==
    /\ app \in {"web", "legacy"}
    /\ pc = "await"
    /\ fn = "generateSummary"
    /\ \E x \in AppChatExchanges :
          LET r == GenerateSummaryResult(x) IN
          IF r.kind = "return"
          THEN /\ summary' = r.text
               /\ HandlerEnds("generate:return")
          ELSE /\ UNCHANGED summary
               /\ HandlerEnds("generate:throw")
    /\ UNCHANGED <<app, form, settings, messages, exch, ret>>
    /\ UNCHANGED sideVars

Next ==
    \/ EditSlackToken
    \/ EditOpenAiToken
    \/ EditLanguage
    \/ EditTemperature
    \/ EditPrompt
    \/ EditThreadUrl
    \/ SubmitWithoutSettings
    \/ Submit
    \/ FetchSettles
    \/ GenerateSettles

Spec == Init /\ [][Next]_vars

----------------------------------------------------------------------------
(* The Sidebar's token validation (src/src/Sidebar.tsx).  Each change of a
   token input runs field.onChange and then validateToken(type, value).
   validateToken is async: up to its await it runs inside the change
   handler; what follows the await runs when the validator's promise
   resolves, and promises of different calls resolve in any order.  A call
   awaiting its validator is an entry of inflight: the field it is for, the
   value it was given, and whether that value is still the field's latest
   one (bookkeeping of the model: the code keeps no such mark, which is the
   point of the claim checked below).  The storage is empty at mount, so
   the form starts from its defaults and the mount effect (109-115) finds
   no token to validate. *)

TokenFields == {"slackToken", "openAiToken"}

\* values typed into a token input: empty, and two different tokens
TypedTokens(type) ==
    IF type = "slackToken" THEN SlackTokens \cup {"tok-2"}
    ELSE OpenAiTokens \cup {"sk-key-2"}

\* what the validator's one fetch() can end in
ValidatorExchanges ==
    { NetworkFailure }
    \cup { [net |-> "ok", status |-> st, body |-> [json |-> TRUE, data |-> [ok |-> b]]] :
             st \in {200, 401}, b \in BOOLEAN }

\* type === 'slackToken' ? validateSlackToken(token) : validateOpenAIToken(token)
IsValid(type, x) ==
    IF type = "slackToken" THEN ValidateSlackTokenResult(x).bool
    ELSE ValidateOpenAITokenResult(x).bool

\* isValid ? 'valid' : 'invalid'
StatusOf(isValid) == IF isValid THEN "valid" ELSE "invalid"

\* setValidation((prev) => ({ ...prev, [type]: status }))
SetValidation(prev, type, status) == [prev EXCEPT ![type] = status]

\* validateToken up to its first return or await: the status it sets
StatusOnCall(token) == IF ~Truthy(token) THEN "idle" ELSE "validating"

\* the calls awaiting their validator after the field `type` got a new
\* value: the earlier calls for that field are no longer for its latest value
Superseded(calls, type) ==
    [i \in 1..Len(calls) |->
        IF calls[i].type = type THEN [calls[i] EXCEPT !.latest = FALSE] ELSE calls[i]]

\* the sequence without its i-th element
RemoveAt(q, i) == [j \in 1..(Len(q) - 1) |-> IF j < i THEN q[j] ELSE q[j + 1]]

InitSidebar ==
    /\ fn = "none"
    /\ pc = "idle"
    /\ args = NoArgs
    /\ exch = NoExchange
    /\ ret = Pending
    /\ httpLog = <<>>
    /\ chatLog = <<>>
    /\ app = "web"
    /\ form = [slackToken |-> "", openAiToken |-> "", language |-> "en",
               temperature |-> DefaultTemperature, prompt |-> DefaultPrompt,
               threadUrl |-> ""]
    /\ settings = Null
    /\ messages = <<>>
    /\ summary = ""
    /\ isLoading = FALSE
    /\ captured = Null
    /\ trace = <<>>
    /\ IdleValidation

\* onChange of a token input: field.onChange(e), on which the watch callback
\* runs, then validateToken(type, e.target.value) up to its return or await
TypeToken(type, value) ==
    /\ value # form[type]
    /\ Truthy(value) => Len(inflight) < MaxInFlight
    /\ form' = [form EXCEPT ![type] = value]
    /\ settings' = WatchCallback(SettingsOf(form'), settings)
    /\ validation' = SetValidation(validation, type, StatusOnCall(value))
    /\ inflight' = IF ~Truthy(value) THEN Superseded(inflight, type)
                   ELSE Append(Superseded(inflight, type),
                               [type |-> type, token |-> value, latest |-> TRUE])
    /\ verdict' = [verdict EXCEPT ![type] = "none"]
    /\ UNCHANGED <<app, messages, summary, isLoading, captured, trace>>
    /\ UNCHANGED svcVars

TypeSlackToken == \E v \in TypedTokens("slackToken") : TypeToken("slackToken", v)

TypeOpenAiToken == \E v \in TypedTokens("openAiToken") : TypeToken("openAiToken", v)

\* the validator of one pending call settles, whichever call it is, and
\* validateToken resumes after its await
ValidatorSettles ==
    \E i \in 1..Len(inflight) : \E x \in ValidatorExchanges :
        LET call == inflight[i]
            status == StatusOf(IsValid(call.type, x))
        IN /\ validation' = SetValidation(validation, call.type, status)
           /\ inflight' = RemoveAt(inflight, i)
           /\ verdict' = IF call.latest THEN [verdict EXCEPT ![call.type] = status]
                         ELSE verdict
           /\ UNCHANGED appVars
           /\ UNCHANGED svcVars

NextSidebar ==
    \/ TypeSlackToken
    \/ TypeOpenAiToken
    \/ ValidatorSettles

SpecSidebar == InitSidebar /\ [][NextSidebar]_vars

----------------------------------------------------------------------------
(* Claims about the service functions, checked under SpecService *)

SettledCall(f) == fn = f /\ pc \in {"returned", "thrown"}

\* C1: for every provider response whose body carries a messages list
\* m1..mn (n >= 0, any status), fetchSlackThread returns exactly n Messages
\* in the provider's order, the i-th with user = mi.user, text = mi.text and
\* timestamp = mi.ts and no other property.
C1_FetchMapsMessagesVerbatim ==
    (/\ SettledCall("fetchSlackThread")
     /\ exch.net = "ok"
     /\ exch.body.json
     /\ "messages" \in DOMAIN exch.body.data)
    => LET m == exch.body.data.messages IN
       /\ pc = "returned"
       /\ ret.kind = "return"
       /\ Len(ret.messages) = Len(m)
       /\ \A i \in 1..Len(m) :
             ret.messages[i] =
                 [user |-> m[i].user, text |-> m[i].text, timestamp |-> m[i].ts]

\* a two-message response in non-chronological order came back as sent
C1_Witness ==
    /\ SettledCall("fetchSlackThread")
    /\ pc = "returned"
    /\ Len(ret.messages) = 2
    /\ ret.messages[1] = [user |-> "bob", text |-> "yo", timestamp |-> "2"]
    /\ ret.messages[2] = [user |-> "alice", text |-> "hi", timestamp |-> "1"]

RECURSIVE ExpectedTranscript(_)
ExpectedTranscript(msgs) ==
    IF msgs = <<>> THEN ""
    ELSE IF Len(msgs) = 1 THEN msgs[1].user \o ": " \o msgs[1].text
    ELSE msgs[1].user \o ": " \o msgs[1].text \o "\n" \o ExpectedTranscript(Tail(msgs))

\* C2: generateSummary sends one chat-completion request whose messages are
\* exactly [system, user] in that order, the user content being the prompt,
\* then "\n\nConversation:\n", then the transcript: each input message as
\* "<user>: <text>", in input order, joined by single newlines (empty for an
\* empty sequence).
C2_UserContentIsPromptPlusTranscript ==
    (fn = "generateSummary" /\ pc # "idle")
    => /\ Len(chatLog) = 1
       /\ httpLog = <<>>
       /\ LET m == chatLog[1].request.messages IN
          /\ Len(m) = 2
          /\ m[1].role = "system"
          /\ m[2].role = "user"
          /\ m[2].content =
                 args.prompt \o "\n\nConversation:\n" \o ExpectedTranscript(args.messages)

\* the end-to-end scenario of the specification
C2_Witness ==
    /\ fn = "generateSummary"
    /\ pc = "await"
    /\ args.prompt = "Summarize"
    /\ Len(args.messages) = 2
    /\ chatLog[1].request.messages[2].content =
           "Summarize\n\nConversation:\nalice: hi\nbob: yo"

\* C4: the system-role content is the Traditional-Chinese instruction iff
\* language is "zh-Hant"; for every other value (unset and unsupported codes
\* included) it is the English instruction, and the request is still sent.
C4_SystemInstructionByLanguage ==
    (fn = "generateSummary" /\ pc # "idle")
    => /\ Len(chatLog) = 1
       /\ LET sys == chatLog[1].request.messages[1] IN
          /\ sys.role = "system"
          /\ (sys.content = ZhInstruction) <=> (args.language = "zh-Hant")
          /\ (args.language # "zh-Hant") => (sys.content = EnInstruction)
          /\ ZhInstruction # EnInstruction

\* an unsupported code and the unset value both got the English instruction
C4_Witness ==
    /\ fn = "generateSummary"
    /\ pc = "await"
    /\ args.language \in {"zh-TW", Undefined}
    /\ chatLog[1].request.messages[1].content = EnInstruction

NoChoices(data) == "choices" \notin DOMAIN data \/ Len(data.choices) = 0

NoFirstContent(data) ==
    \/ NoChoices(data)
    \/ "message" \notin DOMAIN data.choices[1]
    \/ "content" \notin DOMAIN data.choices[1].message

\* C5 as stated: generateSummary returns the first choice's content when
\* present, and returns "" rather than throwing whenever the response has no
\* choices (empty or absent choices list) or the first choice has no message
\* or no content.
C5_EmptyStringOnAnyMissingChoice ==
    (SettledCall("generateSummary") /\ exch.net = "ok")
    => /\ ret.kind = "return"
       /\ ret.text = IF NoFirstContent(exch.data) THEN ""
                     ELSE exch.data.choices[1].message.content

\* C5 as amended: the same for every response that carries a choices list
\* (empty or not); a response without a choices list makes the call throw.
C5_EmptyStringWhenChoicesListPresent ==
    (SettledCall("generateSummary") /\ exch.net = "ok")
    => IF "choices" \in DOMAIN exch.data
       THEN /\ ret.kind = "return"
            /\ ret.text = IF NoFirstContent(exch.data) THEN ""
                          ELSE exch.data.choices[1].message.content
       ELSE ret.kind = "throw" /\ pc = "thrown"

\* an empty choices list gave the empty string
C5_Witness ==
    /\ SettledCall("generateSummary")
    /\ exch.net = "ok"
    /\ "choices" \in DOMAIN exch.data
    /\ exch.data.choices = <<>>
    /\ ret.kind = "return"
    /\ ret.text = ""

\* C6: each validator resolves to false on a 500 response, on a malformed
\* JSON response body and on a network throw; it never throws and never
\* resolves to true in these cases.
C6_ValidatorsCollapseToFalse ==
    (/\ fn \in {"validateSlackToken", "validateOpenAIToken"}
     /\ pc \in {"returned", "thrown"}
     /\ (exch.net = "fail" \/ exch.status = 500 \/ ~exch.body.json))
    => ret.kind = "return" /\ ret.bool = FALSE

\* C7: when the request of fetchSlackThread ends in a network failure or in
\* a non-2xx response, the call returns no message sequence: it throws.
C7_NonSuccessPropagates ==
    (/\ SettledCall("fetchSlackThread")
     /\ (exch.net = "fail" \/ exch.status \notin 200..299))
    => ret.kind = "throw" /\ pc = "thrown"

\* C8: every call of fetchSlackThread issues exactly one network request,
\* carrying Authorization: Bearer <access_token> for the token it was given,
\* while it waits and after it has succeeded or failed alike.
C8_ExactlyOneAuthenticatedRequest ==
    (fn = "fetchSlackThread" /\ pc # "idle")
    => /\ Len(httpLog) = 1
       /\ httpLog[1].headers.Authorization = "Bearer " \o args.token
       /\ httpLog[1].url = "https://slack.com/api/conversations.replies"
       /\ chatLog = <<>>

\* a failed call still stands at one request
C8_Witness ==
    /\ fn = "fetchSlackThread"
    /\ pc = "thrown"
    /\ args.token = "tok"
    /\ Len(httpLog) = 1

----------------------------------------------------------------------------
(* Claims about the submit handler, checked under Spec *)

Occurs(e) == \E i \in 1..Len(trace) : trace[i] = e

\* C3: when the submit handler supplies a temperature to generateSummary,
\* the chat-completion request carries exactly that temperature.
C3_RequestCarriesSuppliedTemperature ==
    (fn = "generateSummary" /\ pc = "await" /\ captured # Null)
    => /\ Len(chatLog) = 1
       /\ "temperature" \in DOMAIN chatLog[1].request
       /\ chatLog[1].request.temperature = captured.temperature

\* C9: within one submission generateSummary is called only after the fetch
\* of that submission has returned, and never once that fetch has thrown.
C9_GenerateOnlyAfterFetchReturned ==
    /\ \A i \in 1..Len(trace) :
          trace[i] = "generate:call"
          => /\ i = 3
             /\ trace[1] = "fetch:call"
             /\ trace[2] = "fetch:return"
    /\ Occurs("fetch:throw") => (~Occurs("generate:call") /\ chatLog = <<>>)
    /\ (fn = "generateSummary" \/ chatLog # <<>>) => Occurs("fetch:return")
    /\ (fn = "fetchSlackThread" /\ pc = "await") => chatLog = <<>>

\* the summary request of a submission is in flight, after its fetch returned
C9_Witness ==
    /\ fn = "generateSummary"
    /\ pc = "await"
    /\ isLoading
    /\ trace = << "fetch:call", "fetch:return", "generate:call" >>
    /\ Len(chatLog) = 1
    /\ Len(messages) = 2

\* first half of C10: every token the handler hands to fetchSlackThread and
\* every credential it hands to generateSummary is non-empty
C10_CredentialsNonEmpty ==
    /\ captured # Null => (Truthy(captured.slackToken) /\ Truthy(captured.openAiToken))
    /\ \A i \in 1..Len(httpLog) :
          httpLog[i].headers.Authorization \notin {"Bearer ", "Bearer undefined"}
    /\ \A i \in 1..Len(chatLog) : Truthy(chatLog[i].apiKey)

\* second half of C10: a submission made while the settings fields do not
\* hold both tokens performs no network call
C10_NoCallWithoutCompleteSettings ==
    (captured # Null /\ ~captured.formComplete) => (httpLog = <<>> /\ chatLog = <<>>)

\* C10: after any edits of the settings fields (clearing a token included)
\* and any submissions, fetchSlackThread is only invoked with a non-empty
\* token and generateSummary with a non-empty credential, and a submission
\* made while no complete settings are available performs no network call.
C10_OnlyCompleteSettingsReachTheNetwork ==
    C10_CredentialsNonEmpty /\ C10_NoCallWithoutCompleteSettings

\* C11: after a successful fetch the message list the handler stores for
\* display equals the fetch result element for element (same user, text and
\* timestamp), so no stored message has a missing or changed timestamp.
C11_StoredMessagesEqualFetchResult ==
    (fn = "generateSummary" /\ pc = "await" /\ captured # Null)
    => /\ Len(messages) = Len(args.messages)
       /\ \A i \in 1..Len(messages) :
             /\ messages[i].user = args.messages[i].user
             /\ messages[i].text = args.messages[i].text
             /\ messages[i].timestamp = args.messages[i].timestamp
             /\ messages[i].timestamp # Undefined

\* the outcome of the latest submission so far
LatestEvent == IF trace = <<>> THEN "none" ELSE trace[Len(trace)]

HandlerOver == LatestEvent \in {"fetch:throw", "generate:throw", "generate:return"}

\* C12: for every submission that starts the pipeline, isLoading is true
\* from the start until the pipeline ends, and is false again once the
\* pending network call has settled, in all three outcomes (fetch fails,
\* generate fails, both succeed); a thrown error ends in the handler's catch
\* block, after which the App is idle and accepts the next submission.
\* While isLoading is true a network call is pending and its settling is
\* the next step of the handler, so the flag cannot stay true once the
\* calls have completed.
C12_LoadingSpansThePipeline ==
    /\ (pc = "await") => (isLoading /\ captured # Null /\ ~HandlerOver)
    /\ isLoading => (pc = "await" /\ fn \in {"fetchSlackThread", "generateSummary"})
    /\ isLoading => ENABLED (FetchSettles \/ GenerateSettles)
    /\ HandlerOver => (~isLoading /\ pc = "idle" /\ captured = Null)

\* a submission whose summary request was rejected is over, not loading
C12_Witness ==
    /\ LatestEvent = "generate:throw"
    /\ ~isLoading
    /\ pc = "idle"

\* what the App renders: {summary && ...} and {messages.length > 0 && ...}
SummaryShown == summary # ""
MessagesShown == Len(messages) > 0

\* setSummary runs only when the latest submission's generateSummary
\* returned, setMessages only when its fetchSlackThread returned
SummaryIsFromLatest == LatestEvent = "generate:return"
MessagesAreFromLatest == Occurs("fetch:return")

\* C13: whenever no submission is in flight, the displayed summary and the
\* displayed messages both come from the most recent submission; a failed
\* submission never leaves an earlier submission's summary next to other
\* messages.
C13_DisplayComesFromLatestSubmission ==
    (pc = "idle" /\ ~isLoading /\ Occurs("fetch:call"))
    => /\ SummaryShown => SummaryIsFromLatest
       /\ MessagesShown => MessagesAreFromLatest

\* C15: every language value the settings UI hands to generateSummary is
\* one of "en" and "zh-Hant", so choosing the Traditional-Chinese option
\* makes generateSummary use the Traditional-Chinese instruction.
C15_LanguageOptionIsSupported ==
    (fn = "generateSummary" /\ pc = "await" /\ captured # Null)
    => /\ captured.language \in {"en", "zh-Hant"}
       /\ args.language = captured.language
       /\ (captured.language # "en")
          => (chatLog[1].request.messages[1].content = ZhInstruction)

----------------------------------------------------------------------------
(* Claims about the Sidebar's token validation, checked under SpecSidebar *)

\* what the indicator of a field should show once nothing is in flight
ExpectedStatus(type) == IF form[type] = "" THEN "idle" ELSE verdict[type]

\* C14: for each token field, under any interleaving of edits and validator
\* responses, once no validation is in flight the displayed status reflects
\* the most recently entered value of the field: idle if it is empty,
\* otherwise valid or invalid as the validator judged that latest value; and
\* a step that validates one field leaves the status of the other field as
\* it was
C14_StatusReflectsLatestValue ==
    /\ [](inflight = <<>> => \A t \in TokenFields : validation[t] = ExpectedStatus(t))
    /\ [][\A t \in TokenFields :
            (form'[t] = form[t] /\ \A i \in 1..Len(inflight) :
                                     (inflight[i].type = t => inflight' # RemoveAt(inflight, i)))
            => validation'[t] = validation[t]]_vars

====
